---------------------------- MODULE Spec2Model ----------------------------
(***************************************************************************)
(* A model of the route planner of lvdopqt/route-api-challenge:            *)
(*   routeplanner/utils.py            (geometry, candidate finder,         *)
(*                                     stop selector)                      *)
(*   routeplanner/services/route_planner.py (RoutePlanner)                 *)
(*   routeplanner/serializers.py, views.py  (request layer)                *)
(*   routeplanner/management/commands/parse_fuel_prices_to_model.py        *)
(*                                     (ingestion writing the catalog)     *)
(*                                                                         *)
(* Numbers.  The code computes with floats; the model with integers.       *)
(*   - distances are whole miles;                                          *)
(*   - prices are whole cents (GasStation.retail_price has 2 decimals);    *)
(*   - a coordinate is the pair <<longitude, latitude>> the code uses,     *)
(*     measured in grid steps.  One step is the angle whose arc on the     *)
(*     Earth sphere (radius 3956 mi) is LatUnitMiles.  All points the      *)
(*     model draws lie on one meridian, where the haversine formula is     *)
(*     exactly  arc * |dlat|.                                              *)
(* Python indices are 0-based and are kept 0-based in the model; a TLA+    *)
(* sequence s is read at Python index k as s[k + 1].                       *)
(***************************************************************************)
EXTENDS Integers, Sequences, FiniteSets, TLC

\* Python's None and Django's NULL: a value that may be absent is None or Some(v)
None == <<>>
Some(v) == <<v>>
Val(o) == o[1]

(***************************************************************************)
(* Bounds of the model.                                                    *)
(***************************************************************************)
MaxRouteLen == 4
MaxPos == 3
MaxStations == 3
MaxIngest == 1
MaxTableRows == 2
MaxProviderRouteLen == 3
TotalSlack == 2
MaxRangeSteps == 1
MaxCallStations == 2
MaxCallRouteLen == 3
MaxCandidates == 3
MaxLastStopSteps == 1
MaxCallTotal == 100
MaxGeocodeResults == 2
MaxFairStations == 1

(***************************************************************************)
(* Program constants.                                                      *)
(***************************************************************************)
proximity_threshold_miles == 10
FUEL_EFFICIENCY == 10
MAX_RANGE == 1
DEFAULT_PRICE_PER_GALLON == 300
CM_PER_MILE == 160934
PRICE_A == 300
PRICE_B == 310
DURATION_S == 12600

\* grid step: half the proximity threshold, so that a station can be strictly
\* inside the threshold, exactly on it, and beyond it
LatUnitMiles == proximity_threshold_miles \div 2
Meridian == 0

Abs(x) == IF x < 0 THEN -x ELSE x

\* smallest r with r * r >= n
CeilSqrt(n) == CHOOSE r \in 0..n : r * r >= n /\ \A q \in 0..n : q * q >= n => r <= q

(***************************************************************************)
(* utils.haversine.  On one meridian (dlon = 0) a = sin^2(dlat/2), so      *)
(* c = |dlat| and miles = 3956 * |dlat|; likewise on the equator.  For     *)
(* other pairs of the small grid the arc is the planar distance, rounded   *)
(* up to whole miles.  A point that is not a pair makes the unpacking      *)
(* `lon1, lat1 = coord1` raise ValueError; callers test WellFormed first.  *)
(***************************************************************************)
WellFormed(coord) == Len(coord) = 2

haversine(coord1, coord2) ==
    LET lon1 == coord1[1]
        lat1 == coord1[2]
        lon2 == coord2[1]
        lat2 == coord2[2]
        dlon == lon2 - lon1
        dlat == lat2 - lat1
    IN  IF dlon = 0 THEN LatUnitMiles * Abs(dlat)
        ELSE IF dlat = 0 THEN LatUnitMiles * Abs(dlon)
        ELSE CeilSqrt(LatUnitMiles * LatUnitMiles * (dlon * dlon + dlat * dlat))

(***************************************************************************)
(* utils.calculate_cumulative_distances                                    *)
(***************************************************************************)
RECURSIVE RawCumulative(_, _)
\* the running sum appended at Python index k by the for loop (k = 0: the seed 0)
RawCumulative(route_coords, k) ==
    IF k = 0 THEN 0
    ELSE RawCumulative(route_coords, k - 1)
            + haversine(route_coords[k], route_coords[k + 1])

\* a variant that corrects the last element from a difference of 1 mile on
calculate_cumulative_distances_from_one(route_coords, total_route_distance_miles) ==
    LET n == IF Len(route_coords) = 0 THEN 1 ELSE Len(route_coords)
        raw == [k \in 1..n |-> RawCumulative(route_coords, k - 1)]
    IN  IF Abs(raw[n] - total_route_distance_miles) >= 1
        THEN [raw EXCEPT ![n] = total_route_distance_miles]
        ELSE raw

calculate_cumulative_distances(route_coords, total_route_distance_miles) ==
    LET n == IF Len(route_coords) = 0 THEN 1 ELSE Len(route_coords)
        raw == [k \in 1..n |-> RawCumulative(route_coords, k - 1)]
    IN  IF Abs(raw[n] - total_route_distance_miles) > 1
        THEN [raw EXCEPT ![n] = total_route_distance_miles]
        ELSE raw

(***************************************************************************)
(* utils.find_route_point_index_by_distance (returns a Python index)       *)
(***************************************************************************)
\* a variant that looks for a distance strictly above the target
find_route_point_index_above(cumulative_distances, target_distance, start_index) ==
    LET hits == {j \in start_index..(Len(cumulative_distances) - 1) :
                    cumulative_distances[j + 1] > target_distance}
    IN  IF hits # {}
        THEN CHOOSE j \in hits : \A h \in hits : j <= h
        ELSE Len(cumulative_distances) - 1

\* a variant that scans the table from its beginning
find_route_point_index_from_zero(cumulative_distances, target_distance, start_index) ==
    LET hits == {j \in 0..(Len(cumulative_distances) - 1) :
                    cumulative_distances[j + 1] >= target_distance}
    IN  IF hits # {}
        THEN CHOOSE j \in hits : \A h \in hits : j <= h
        ELSE Len(cumulative_distances) - 1

find_route_point_index_by_distance(cumulative_distances, target_distance, start_index) ==
    LET hits == {j \in start_index..(Len(cumulative_distances) - 1) :
                    cumulative_distances[j + 1] >= target_distance}
    IN  IF hits # {}
        THEN CHOOSE j \in hits : \A h \in hits : j <= h
        ELSE Len(cumulative_distances) - 1

(***************************************************************************)
(* utils.deduplicate_stops_by_location                                     *)
(***************************************************************************)
RECURSIVE DedupFrom(_, _, _, _)
DedupFrom(stops_list, k, seen_locations, deduplicated_stops) ==
    IF k > Len(stops_list) THEN deduplicated_stops
    ELSE LET stop == stops_list[k]
         IN  IF stop.location \notin seen_locations
             THEN DedupFrom(stops_list, k + 1, seen_locations \cup {stop.location},
                            Append(deduplicated_stops, stop))
             ELSE DedupFrom(stops_list, k + 1, seen_locations, deduplicated_stops)

\* a variant that keeps the last stop of each location instead of the first
deduplicate_keeping_last(stops_list) ==
    LET Reverse(q) == [k \in 1..Len(q) |-> q[Len(q) + 1 - k]]
    IN  Reverse(DedupFrom(Reverse(stops_list), 1, {}, <<>>))

deduplicate_stops_by_location(stops_list) ==
    DedupFrom(stops_list, 1, {}, <<>>)

(***************************************************************************)
(* utils.find_candidate_stations_near_segment.  `table` is the GasStation  *)
(* table as the query of line 78 finds it at the moment of the call, rows  *)
(* in primary-key order.                                                   *)
(***************************************************************************)
\* the filter latitude__isnull=False, longitude__isnull=False
HasCoordinates(station) == station.latitude # None /\ station.longitude # None

all_gas_stations(table) == SelectSeq(table, HasCoordinates)

\* a variant that counts a station exactly at the threshold as near
is_near_or_at_threshold(station, route_coords, segment_start_index, segment_end_index, threshold) ==
    \E k \in segment_start_index..segment_end_index :
        haversine(<<Val(station.longitude), Val(station.latitude)>>, route_coords[k + 1])
            <= threshold

is_near_route_segment(station, route_coords, segment_start_index, segment_end_index, threshold) ==
    \E k \in segment_start_index..segment_end_index :
        haversine(<<Val(station.longitude), Val(station.latitude)>>, route_coords[k + 1])
            < threshold

\* a variant that also admits a station exactly as far as the last stop
is_ahead_or_level(dist_station_from_start_straight_line, last_stop_distance_from_start) ==
    dist_station_from_start_straight_line >= last_stop_distance_from_start

\* utils.py 92: the station lies farther from the route start than the last stop
is_ahead_of_last_stop(dist_station_from_start_straight_line, last_stop_distance_from_start) ==
    dist_station_from_start_straight_line > last_stop_distance_from_start

RECURSIVE CandidatesFrom(_, _, _, _, _, _, _)
CandidatesFrom(stations, n, route_coords, segment_start_index, segment_end_index, threshold, last_stop_distance_from_start) ==
    IF n = 0 THEN <<>>
    ELSE LET before == CandidatesFrom(stations, n - 1, route_coords, segment_start_index,
                                      segment_end_index, threshold,
                                      last_stop_distance_from_start)
             station == stations[n]
             station_coords == <<Val(station.longitude), Val(station.latitude)>>
             straight == haversine(route_coords[1], station_coords)
         IN  IF /\ is_near_route_segment(station, route_coords, segment_start_index,
                                         segment_end_index, threshold)
                /\ is_ahead_of_last_stop(straight, last_stop_distance_from_start)
             THEN Append(before,
                         [location |-> <<Val(station.latitude), Val(station.longitude)>>,
                          fuel_price_per_gallon |-> station.retail_price,
                          distance_from_start_straight_line_miles |-> straight,
                          station_obj |-> station.id])
             ELSE before

find_candidate_stations_near_segment(table, route_coords, cumulative_distances, segment_start_index, segment_end_index, threshold, last_stop_distance_from_start) ==
    LET stations == all_gas_stations(table)
    IN  CandidatesFrom(stations, Len(stations), route_coords, segment_start_index,
                       segment_end_index, threshold, last_stop_distance_from_start)

\* a variant that falls back to a default-priced stop when nothing is near
select_cheapest_or_default_stop(candidate_stations) ==
    IF candidate_stations = <<>>
    THEN Some([location |-> <<0, 0>>, fuel_price_per_gallon |-> DEFAULT_PRICE_PER_GALLON])
    ELSE LET best == CHOOSE k \in 1..Len(candidate_stations) :
                        /\ \A m \in 1..Len(candidate_stations) :
                              candidate_stations[k].fuel_price_per_gallon
                                 <= candidate_stations[m].fuel_price_per_gallon
                        /\ \A m \in 1..(k - 1) :
                              candidate_stations[m].fuel_price_per_gallon
                                 > candidate_stations[k].fuel_price_per_gallon
         IN  Some(candidate_stations[best])

\* a variant that returns the last of the cheapest candidates
select_last_cheapest_stop(candidate_stations) ==
    IF candidate_stations = <<>> THEN None
    ELSE LET best == CHOOSE k \in 1..Len(candidate_stations) :
                        /\ \A m \in 1..Len(candidate_stations) :
                              candidate_stations[k].fuel_price_per_gallon
                                 <= candidate_stations[m].fuel_price_per_gallon
                        /\ \A m \in (k + 1)..Len(candidate_stations) :
                              candidate_stations[m].fuel_price_per_gallon
                                 > candidate_stations[k].fuel_price_per_gallon
         IN  Some(candidate_stations[best])

(***************************************************************************)
(* utils.select_cheapest_stop: Python's min returns the first minimum.     *)
(***************************************************************************)
select_cheapest_stop(candidate_stations) ==
    IF candidate_stations = <<>> THEN None
    ELSE LET best == CHOOSE k \in 1..Len(candidate_stations) :
                        /\ \A m \in 1..Len(candidate_stations) :
                              candidate_stations[k].fuel_price_per_gallon
                                 <= candidate_stations[m].fuel_price_per_gallon
                        /\ \A m \in 1..(k - 1) :
                              candidate_stations[m].fuel_price_per_gallon
                                 > candidate_stations[k].fuel_price_per_gallon
         IN  Some(candidate_stations[best])



(***************************************************************************)
(* RoutePlanner._calculate_total_fuel_cost_on_route and the sort of plan.  *)
(* Money: a price is in cents per gallon; at FUEL_EFFICIENCY = 10 mpg a    *)
(* segment of d miles at p cents costs d * p tenths of a cent, so the      *)
(* total is kept in tenths of a cent (FUEL_EFFICIENCY divides the unit).   *)
(***************************************************************************)
RECURSIVE InsertPair(_, _)
\* insert the pair x = <<key, value>> into the sorted sequence s of pairs, after
\* every pair whose key is <= its key
InsertPair(s, x) ==
    IF s = <<>> THEN <<x>>
    ELSE IF Head(s)[1] <= x[1]
         THEN <<Head(s)>> \o InsertPair(Tail(s), x)
         ELSE <<x>> \o s

RECURSIVE SortPairs(_)
\* list.sort(key=...) on <<key, value>> pairs: ascending by key, stable
SortPairs(s) ==
    IF s = <<>> THEN <<>>
    ELSE InsertPair(SortPairs(SubSeq(s, 1, Len(s) - 1)), s[Len(s)])

\* route_planner.py 113: optimal_stops.sort(key=distance_from_start_miles)
sort_stops(stops) ==
    LET sorted == SortPairs([k \in 1..Len(stops) |->
                                <<stops[k].distance_from_start_miles, stops[k]>>])
    IN  [k \in 1..Len(stops) |-> sorted[k][2]]

\* a variant that leaves the waypoints in the order they were appended
sort_numbers_skipped(xs) == xs

\* route_planner.py 173: waypoint_distances_along_route.sort()
sort_numbers(xs) ==
    LET sorted == SortPairs([k \in 1..Len(xs) |-> <<xs[k], xs[k]>>])
    IN  [k \in 1..Len(xs) |-> sorted[k][2]]

\* route_planner.py 160-167: the first route point at minimum distance
closest_route_point_index(stop, route) ==
    LET stop_coords == <<stop.location[2], stop.location[1]>>
        hits == {k \in 0..(Len(route) - 1) :
                    \A m \in 0..(Len(route) - 1) :
                        haversine(stop_coords, route[k + 1])
                            <= haversine(stop_coords, route[m + 1])}
    IN  IF hits = {} THEN 0 ELSE CHOOSE k \in hits : \A h \in hits : k <= h

\* a variant that appends the end of the route once more after a stop
waypoint_distances_with_extra_end(route, total, stops) ==
    LET cumulative == calculate_cumulative_distances(route, total)
        unsorted == <<0>>
            \o [k \in 1..Len(stops) |->
                    cumulative[closest_route_point_index(stops[k], route) + 1]]
            \o (IF stops = <<>> THEN <<total>> ELSE <<total, total>>)
    IN  sort_numbers(unsorted)

\* route_planner.py 154-173: start, projected stops, end, sorted
waypoint_distances_along_route(route, total, stops) ==
    LET cumulative == calculate_cumulative_distances(route, total)
        unsorted == <<0>>
            \o [k \in 1..Len(stops) |->
                    cumulative[closest_route_point_index(stops[k], route) + 1]]
            \o <<total>>
    IN  sort_numbers(unsorted)

\* route_planner.py 183-197: the price of segment k (Python index)
segment_price(k, stops) ==
    IF k = 0 THEN DEFAULT_PRICE_PER_GALLON
    ELSE IF k - 1 < Len(stops) THEN stops[k].fuel_price_per_gallon
         ELSE stops[Len(stops)].fuel_price_per_gallon

RECURSIVE CostUpTo(_, _, _)
CostUpTo(waypoints, stops, n) ==
    IF n = 0 THEN 0
    ELSE CostUpTo(waypoints, stops, n - 1)
            + (waypoints[n + 1] - waypoints[n]) * segment_price(n - 1, stops)

\* a variant whose segment loop stops one segment early
calculate_total_fuel_cost_one_short(route, total, stops) ==
    LET waypoints == waypoint_distances_along_route(route, total, stops)
    IN  CostUpTo(waypoints, stops, Len(waypoints) - 2)

\* in tenths of a cent
calculate_total_fuel_cost_on_route(route, total, stops) ==
    LET waypoints == waypoint_distances_along_route(route, total, stops)
    IN  CostUpTo(waypoints, stops, Len(waypoints) - 1)

\* round(total_fuel_cost, 2): tenths of a cent to whole cents, half to even
round_to_cents(tenths) ==
    LET q == tenths \div FUEL_EFFICIENCY
        r == tenths % FUEL_EFFICIENCY
    IN  IF 2 * r < FUEL_EFFICIENCY THEN q
        ELSE IF 2 * r > FUEL_EFFICIENCY THEN q + 1
        ELSE IF q % 2 = 0 THEN q ELSE q + 1

(***************************************************************************)
(* serializers.RouteParametersSerializer.  A query value is None (absent)  *)
(* or Some(parts), parts being what value.split(',') yields; a part is     *)
(* Num(x) when float() accepts it (x in whole degrees) and NotANumber      *)
(* otherwise.                                                              *)
(***************************************************************************)
Num(x) == <<x>>
NotANumber == <<>>

\* a variant without the range checks of lines 38-41
validate_coordinate_unranged(parts) ==
    IF Len(parts) # 2 THEN None
    ELSE IF parts[1] = NotANumber \/ parts[2] = NotANumber THEN None
    ELSE Some(<<Val(parts[2]), Val(parts[1])>>)

\* _validate_coordinate: None when it raises ValidationError
validate_coordinate(parts) ==
    IF Len(parts) # 2 THEN None
    ELSE IF parts[1] = NotANumber \/ parts[2] = NotANumber THEN None
    ELSE LET longitude == Val(parts[1])
             latitude == Val(parts[2])
         IN  IF ~(-180 <= longitude /\ longitude <= 180) THEN None
             ELSE IF ~(-90 <= latitude /\ latitude <= 90) THEN None
             ELSE Some(<<latitude, longitude>>)

\* the error of one field, "" when it validates
field_error(value) ==
    IF value = None THEN "This field is required."
    ELSE IF validate_coordinate(Val(value)) = None THEN "invalid"
    ELSE ""

serializer_errors(query_params) ==
    [f \in {k \in {"start", "end"} : field_error(query_params[k]) # ""} |->
        field_error(query_params[f])]

serializer_is_valid(query_params) ==
    DOMAIN serializer_errors(query_params) = {}

validated_data(query_params) ==
    [start |-> Val(validate_coordinate(Val(query_params.start))),
     end |-> Val(validate_coordinate(Val(query_params.end)))]

(***************************************************************************)
(* RoutePlanner._get_initial_route.  `answer` is what the routing service  *)
(* does with the request: a kind, and for a usable answer the geometry,    *)
(* the distance in metres and the duration.                                *)
(***************************************************************************)
RoutingFailures == {"http_error", "network_exception", "empty_features",
                    "missing_geometry", "missing_summary"}

\* f"{coords[0]},{coords[1]}"
format_param(coords) == <<Num(coords[1]), Num(coords[2])>>

\* a variant that reads the summary with defaults instead of indexing it
get_initial_route_lenient(answer) ==
    IF answer.kind \in {"http_error", "network_exception"}
    THEN [raised |-> TRUE,
          message |-> "Failed to get initial route from OpenRouteService"]
    ELSE IF answer.kind \in {"empty_features", "missing_geometry"}
    THEN [raised |-> TRUE,
          message |-> "Error processing OpenRouteService initial route response"]
    ELSE IF answer.kind = "missing_summary"
    THEN [raised |-> FALSE, coords |-> <<>>, distance_m |-> 0, duration_s |-> 0]
    ELSE [raised |-> FALSE, coords |-> answer.coords,
          distance_m |-> answer.distance_m, duration_s |-> answer.duration_s]

get_initial_route(answer) ==
    IF answer.kind \in {"http_error", "network_exception"}
    THEN [raised |-> TRUE,
          message |-> "Failed to get initial route from OpenRouteService"]
    ELSE IF answer.kind \in {"empty_features", "missing_geometry", "missing_summary"}
    THEN [raised |-> TRUE,
          message |-> "Error processing OpenRouteService initial route response"]
    ELSE [raised |-> FALSE, coords |-> answer.coords,
          distance_m |-> answer.distance_m, duration_s |-> answer.duration_s]

\* initial_distance_m / 1609.34, in whole miles
meters_to_miles(distance_m) == (distance_m * 100) \div CM_PER_MILE

\* the metres the service reports for a route of t miles
MetersOf(t) == (t * CM_PER_MILE + 99) \div 100

(***************************************************************************)
(* State.                                                                  *)
(*   GasStation      the station table (rows in primary-key order)         *)
(*   ingested        number of rows the import command has saved so far    *)
(*   caller          who runs the pass: "plan" (RoutePlanner.plan under    *)
(*                   RouteAPIView.get) or "test" (find_stops called        *)
(*                   directly, as the unit tests do)                       *)
(*   pc              "request": the request has arrived; "find_stops":     *)
(*                   inside the while loop of find_stops; "call": about to *)
(*                   call a helper function directly; "done"               *)
(*   request         the query parameters                                  *)
(*   planner         None, or Some of the RoutePlanner constructed         *)
(*   route_params    None, or Some of the start/end sent to the routing    *)
(*                   service                                               *)
(*   routing         the kind of answer of the routing service ("" before) *)
(*   duration_s      the duration the routing service reported             *)
(*   plan_result     None, or Some of what plan() returned                 *)
(*   response        None, or Some([status, data]) of the view             *)
(*   route_coords, total_route_distance_miles, max_range_miles             *)
(*                   the arguments of find_stops                           *)
(*   cumulative_distances, i, last_stop_distance_from_start, optimal_stops *)
(*                   the locals of find_stops                              *)
(*   scans           one record per call of                                *)
(*                   find_candidate_stations_near_segment in this pass     *)
(*   returned        None, or Some of the list find_stops returned         *)
(*   call            the last direct call of a helper function: its name,  *)
(*                   its arguments and what it returned (NoCall before)    *)
(***************************************************************************)
VARIABLES GasStation, ingested, caller, pc, request, planner, route_params, routing,
          duration_s, plan_result, response, route_coords,
          total_route_distance_miles, max_range_miles, cumulative_distances, i,
          last_stop_distance_from_start, optimal_stops, scans, returned, call

vars == <<GasStation, ingested, caller, pc, request, planner, route_params, routing,
          duration_s, plan_result, response, route_coords,
          total_route_distance_miles, max_range_miles, cumulative_distances, i,
          last_stop_distance_from_start, optimal_stops, scans, returned, call>>

viewVars == <<request, planner, route_params, routing, duration_s, plan_result,
              response>>

passVars == <<route_coords, total_route_distance_miles, max_range_miles,
              cumulative_distances, i, last_stop_distance_from_start,
              optimal_stops, scans, returned>>

NoCall == [op |-> "none"]

(***************************************************************************)
(* Inputs.                                                                 *)
(***************************************************************************)
Points == {<<Meridian, p>> : p \in 0..MaxPos}

\* the grid is symmetric under p -> MaxPos - p, so a route starts in its lower half
RoutesUpTo(maxLen) ==
    {r \in UNION {[1..n -> Points] : n \in 0..maxLen} :
        Len(r) > 0 => 2 * r[1][2] <= MaxPos}

Routes == RoutesUpTo(MaxRouteLen)

\* the declared total is within TotalSlack miles of the length of the geometry
TotalsOf(route) ==
    LET raw == RawCumulative(route, IF Len(route) = 0 THEN 0 ELSE Len(route) - 1)
    IN  {t \in (raw - TotalSlack)..(raw + TotalSlack) : t >= 0}

MaxRangeChoices == {MAX_RANGE} \cup {LatUnitMiles * k : k \in 1..MaxRangeSteps}

\* prices as in the fixture of tests/test_utils.py: a tie and a strict order
PriceOfRow(k) == IF k % 3 = 2 THEN PRICE_B ELSE PRICE_A

GeocodeChoices == {<<None, None>>} \cup {<<Some(p), Some(Meridian)>> : p \in 0..MaxPos}

StationRows(k) ==
    {[id |-> k, opis_truckstop_id |-> k, retail_price |-> PriceOfRow(k),
      latitude |-> c[1], longitude |-> c[2]] : c \in GeocodeChoices}

CatalogsOf(n) ==
    {t \in [1..n -> UNION {StationRows(k) : k \in 1..n}] : \A k \in 1..n : t[k].id = k}

Catalogs == CatalogsOf(MaxStations)

\* query strings: absent, not a pair, not numbers, out of range, and a valid
\* "longitude,latitude" (New York and Washington of the tests, in whole degrees)
BadValues == {None, Some(<<NotANumber>>), Some(<<Num(-74), Num(40), Num(7)>>),
              Some(<<Num(-74), NotANumber>>), Some(<<Num(200), Num(40)>>),
              Some(<<Num(-74), Num(95)>>)}

Requests ==
    {[start |-> a, end |-> b] :
        a \in BadValues \cup {Some(<<Num(-74), Num(40)>>)},
        b \in BadValues \cup {Some(<<Num(-77), Num(38)>>)}}

\* what the routing service may answer
FailedAnswers == {[kind |-> k] : k \in RoutingFailures}

\* a payload whose geometry holds a point that is not a pair
MalformedAnswers ==
    {[kind |-> "malformed_point", coords |-> <<<<Meridian, 0>>, <<Meridian>>>>,
      distance_m |-> MetersOf(LatUnitMiles), duration_s |-> DURATION_S]}

UsableAnswers ==
    UNION {{[kind |-> "ok", coords |-> r, distance_m |-> MetersOf(t),
             duration_s |-> DURATION_S] : t \in TotalsOf(r)} :
              r \in RoutesUpTo(MaxProviderRouteLen)}


Answers == FailedAnswers \cup MalformedAnswers \cup UsableAnswers

\* the rows of the CSV file, each with what the geocoder finds for its address
CsvRows ==
    {[opis_truckstop_id |-> k, retail_price |-> PRICE_B,
      latitude |-> c[1], longitude |-> c[2]] :
        k \in 1..(MaxTableRows + 1), c \in GeocodeChoices}

(***************************************************************************)
(* RoutePlanner.plan and RouteAPIView.get, piece by piece.                 *)
(***************************************************************************)
\* route_planner.py 12-22
RoutePlanner(start_coords, end_coords) ==
    [start_coords |-> start_coords, end_coords |-> end_coords]

\* route_planner.py 46-52: the start/end parameters of the GET
route_params_of(p) ==
    [start |-> format_param(p.start_coords), end |-> format_param(p.end_coords)]

\* route_planner.py 100-102
plan_error_result(message) == [error |-> <<"Could not plan route", message>>]

\* route_planner.py 123-131
plan_success_result(route, total, duration, stops, cost) ==
    [total_distance_miles |-> total,
     total_duration_seconds |-> duration,
     total_fuel_cost_usd |-> round_to_cents(cost),
     fuel_stops |-> stops,
     route_geometry |-> [k \in 1..Len(route) |-> <<route[k][2], route[k][1]>>]]

\* views.py 18
response_bad_request(errors) == [status |-> 400, data |-> errors]

\* views.py 26-27
response_for_result(result) == [status |-> 200, data |-> result]

\* views.py 29-30
response_for_exception(message) == [status |-> 500, data |-> [error |-> message]]

\* haversine raises on the first point it cannot unpack (utils.py 11-12, 30)
cumulative_distances_raise(route) ==
    Len(route) >= 2 /\ \E k \in 1..Len(route) : ~WellFormed(route[k])

(***************************************************************************)
(* RouteAPIView.get, the request is invalid (views.py 15-18).              *)
(***************************************************************************)
ViewBadRequest ==
    /\ pc = "request"
    /\ ~serializer_is_valid(request)
    /\ response' = Some(response_bad_request(serializer_errors(request)))
    /\ pc' = "done"
    /\ UNCHANGED <<call, GasStation, ingested, caller, request, planner, route_params,
                   routing, duration_s, plan_result>>
    /\ UNCHANGED passVars

(***************************************************************************)
(* RouteAPIView.get, the request is valid and _get_initial_route raises    *)
(* (views.py 20-27, route_planner.py 97-102).                              *)
(***************************************************************************)
ViewRoutingFails ==
    /\ pc = "request"
    /\ serializer_is_valid(request)
    /\ \E answer \in Answers :
        LET p == RoutePlanner(validated_data(request).start, validated_data(request).end)
            r == get_initial_route(answer)
        IN  /\ r.raised
            /\ planner' = Some(p)
            /\ route_params' = Some(route_params_of(p))
            /\ routing' = answer.kind
            /\ plan_result' = Some(plan_error_result(r.message))
            /\ response' = Some(response_for_result(plan_error_result(r.message)))
    /\ pc' = "done"
    /\ UNCHANGED <<call, GasStation, ingested, caller, request, duration_s>>
    /\ UNCHANGED passVars

(***************************************************************************)
(* RouteAPIView.get, the route arrives but find_stops raises on its        *)
(* geometry: plan() lets the exception through (views.py 24-30).           *)
(***************************************************************************)
ViewPlanRaises ==
    /\ pc = "request"
    /\ serializer_is_valid(request)
    /\ \E answer \in Answers :
        LET p == RoutePlanner(validated_data(request).start, validated_data(request).end)
            r == get_initial_route(answer)
        IN  /\ ~r.raised
            /\ cumulative_distances_raise(r.coords)
            /\ planner' = Some(p)
            /\ route_params' = Some(route_params_of(p))
            /\ routing' = answer.kind
            /\ duration_s' = r.duration_s
            /\ response' = Some(response_for_exception("not enough values to unpack"))
    /\ pc' = "done"
    /\ UNCHANGED <<call, GasStation, ingested, caller, request, plan_result>>
    /\ UNCHANGED passVars

(***************************************************************************)
(* RouteAPIView.get, the route arrives: plan() enters find_stops           *)
(* (views.py 20-26, route_planner.py 97-109, utils.py 118-124).            *)
(***************************************************************************)
ViewPlanStart ==
    /\ pc = "request"
    /\ serializer_is_valid(request)
    /\ \E answer \in Answers :
        LET p == RoutePlanner(validated_data(request).start, validated_data(request).end)
            r == get_initial_route(answer)
        IN  /\ ~r.raised
            /\ ~cumulative_distances_raise(r.coords)
            /\ planner' = Some(p)
            /\ route_params' = Some(route_params_of(p))
            /\ routing' = answer.kind
            /\ duration_s' = r.duration_s
            /\ route_coords' = r.coords
            /\ total_route_distance_miles' = meters_to_miles(r.distance_m)
            /\ cumulative_distances' =
                   calculate_cumulative_distances(r.coords, meters_to_miles(r.distance_m))
    /\ max_range_miles' = MAX_RANGE
    /\ i' = 0
    /\ last_stop_distance_from_start' = 0
    /\ optimal_stops' = <<>>
    /\ scans' = <<>>
    /\ pc' = "find_stops"
    /\ UNCHANGED <<call, GasStation, ingested, caller, request, plan_result, response, returned>>

(***************************************************************************)
(* The stop the loop appends (utils.py 157-161).                           *)
(***************************************************************************)
\* a variant that records the distance left to the destination
new_stop_remaining(cheapest_stop, current_distance_from_start) ==
    [location |-> cheapest_stop.location,
     fuel_price_per_gallon |-> cheapest_stop.fuel_price_per_gallon,
     distance_from_start_miles |->
         total_route_distance_miles - current_distance_from_start]

\* a variant that records the station's own straight-line distance
new_stop_at_station(cheapest_stop, current_distance_from_start) ==
    [location |-> cheapest_stop.location,
     fuel_price_per_gallon |-> cheapest_stop.fuel_price_per_gallon,
     distance_from_start_miles |-> cheapest_stop.distance_from_start_straight_line_miles]

new_stop(cheapest_stop, current_distance_from_start) ==
    [location |-> cheapest_stop.location,
     fuel_price_per_gallon |-> cheapest_stop.fuel_price_per_gallon,
     distance_from_start_miles |-> current_distance_from_start]

(***************************************************************************)
(* The trigger of a search (utils.py 139).                                 *)
(***************************************************************************)
\* a variant that searches only while the target point is still ahead
search_triggered_before_target(remaining_distance_total, distance_to_next_stop_target_point, current_range) ==
    /\ remaining_distance_total > current_range
    /\ distance_to_next_stop_target_point > 0

\* a variant with inclusive comparisons
search_triggered_inclusive(remaining_distance_total, distance_to_next_stop_target_point, current_range) ==
    /\ remaining_distance_total >= current_range
    /\ distance_to_next_stop_target_point >= current_range

search_triggered(remaining_distance_total, distance_to_next_stop_target_point, current_range) ==
    /\ remaining_distance_total > current_range
    /\ distance_to_next_stop_target_point > current_range

\* a variant that takes the full range at every index
remaining_range_full(max_range, distance_since_last_stop) ==
    max_range

\* utils.py 129: current_range
remaining_range(max_range, distance_since_last_stop) ==
    max_range - distance_since_last_stop

\* a variant that does not advance
next_index_stays(index) == index

\* utils.py 165: i += 1
next_index(index) == index + 1

(***************************************************************************)
(* One iteration of the while loop of find_stops (utils.py 126-165).  The  *)
(* table is read when the iteration calls the candidate finder.            *)
(***************************************************************************)
FindStopsIter ==
    /\ pc = "find_stops"
    /\ i < Len(route_coords)
    /\ LET current_distance_from_start == cumulative_distances[i + 1]
           distance_since_last_stop ==
               current_distance_from_start - last_stop_distance_from_start
           current_range == remaining_range(max_range_miles, distance_since_last_stop)
           remaining_distance_total ==
               total_route_distance_miles - current_distance_from_start
           target_distance_for_next_stop ==
               last_stop_distance_from_start + max_range_miles
           next_stop_target_index ==
               find_route_point_index_by_distance(cumulative_distances,
                   target_distance_for_next_stop, i)
           distance_to_next_stop_target_point ==
               cumulative_distances[next_stop_target_index + 1]
                   - current_distance_from_start
           look_ahead_distance == current_range
           look_ahead_index ==
               find_route_point_index_by_distance(cumulative_distances,
                   current_distance_from_start + look_ahead_distance, i)
           candidate_stations ==
               find_candidate_stations_near_segment(GasStation, route_coords,
                   cumulative_distances, i, look_ahead_index,
                   proximity_threshold_miles, last_stop_distance_from_start)
           cheapest_stop == select_cheapest_stop(candidate_stations)
       IN  IF search_triggered(remaining_distance_total,
                               distance_to_next_stop_target_point, current_range)
           THEN /\ scans' = Append(scans,
                      [index |-> i,
                       look_ahead_index |-> look_ahead_index,
                       next_stop_target_index |-> next_stop_target_index,
                       current_range |-> current_range,
                       last_stop_distance_from_start |-> last_stop_distance_from_start,
                       table |-> GasStation,
                       candidate_stations |-> candidate_stations])
                /\ IF cheapest_stop # None
                   THEN /\ optimal_stops' = Append(optimal_stops,
                              new_stop(Val(cheapest_stop), current_distance_from_start))
                        /\ last_stop_distance_from_start' = current_distance_from_start
                   ELSE UNCHANGED <<optimal_stops, last_stop_distance_from_start>>
           ELSE UNCHANGED <<scans, optimal_stops, last_stop_distance_from_start>>
    /\ i' = next_index(i)
    /\ UNCHANGED <<call, GasStation, ingested, caller, pc, route_coords,
                   total_route_distance_miles, max_range_miles, cumulative_distances,
                   returned>>
    /\ UNCHANGED viewVars

(***************************************************************************)
(* The loop exit and the return of find_stops to a direct caller           *)
(* (utils.py 126, 167).                                                    *)
(***************************************************************************)
FindStopsReturn ==
    /\ pc = "find_stops"
    /\ caller = "test"
    /\ i >= Len(route_coords)
    /\ returned' = Some(deduplicate_stops_by_location(optimal_stops))
    /\ pc' = "done"
    /\ UNCHANGED <<call, GasStation, ingested, caller, route_coords,
                   total_route_distance_miles, max_range_miles, cumulative_distances,
                   i, last_stop_distance_from_start, optimal_stops, scans>>
    /\ UNCHANGED viewVars

(***************************************************************************)
(* The loop exit under plan(): find_stops returns, plan sorts the stops,   *)
(* prices the trip and builds the plan; the view answers                   *)
(* (utils.py 167, route_planner.py 109-131, views.py 26-27).               *)
(***************************************************************************)
PlanFinish ==
    /\ pc = "find_stops"
    /\ caller = "plan"
    /\ i >= Len(route_coords)
    /\ LET stops == sort_stops(deduplicate_stops_by_location(optimal_stops))
           cost == calculate_total_fuel_cost_on_route(route_coords,
                       total_route_distance_miles, stops)
           result == plan_success_result(route_coords, total_route_distance_miles,
                                         duration_s, stops, cost)
       IN  /\ returned' = Some(stops)
           /\ plan_result' = Some(result)
           /\ response' = Some(response_for_result(result))
    /\ pc' = "done"
    /\ UNCHANGED <<call, GasStation, ingested, caller, request, planner, route_params,
                   routing, duration_s, route_coords, total_route_distance_miles,
                   max_range_miles, cumulative_distances, i,
                   last_stop_distance_from_start, optimal_stops, scans>>

(***************************************************************************)
(* The import command saves one CSV row while a pass is running            *)
(* (parse_fuel_prices_to_model.py 43-54, 94-117): update_or_create keyed   *)
(* on opis_truckstop_id.                                                   *)
(***************************************************************************)
update_or_create(table, row) ==
    LET matches == {n \in 1..Len(table) :
                       table[n].opis_truckstop_id = row.opis_truckstop_id}
    IN  IF matches = {}
        THEN Append(table, [id |-> Len(table) + 1,
                            opis_truckstop_id |-> row.opis_truckstop_id,
                            retail_price |-> row.retail_price,
                            latitude |-> row.latitude,
                            longitude |-> row.longitude])
        ELSE IF Cardinality(matches) = 1
        THEN LET n == CHOOSE m \in matches : TRUE
             IN  [table EXCEPT ![n].retail_price = row.retail_price,
                               ![n].latitude = row.latitude,
                               ![n].longitude = row.longitude]
        ELSE table   \* MultipleObjectsReturned: caught, nothing saved

SaveGasStationRecord ==
    /\ caller = "plan"
    /\ pc = "find_stops"
    /\ ingested < MaxIngest
    /\ \E row \in CsvRows : GasStation' = update_or_create(GasStation, row)
    /\ ingested' = ingested + 1
    /\ UNCHANGED <<call, caller, pc>>
    /\ UNCHANGED viewVars
    /\ UNCHANGED passVars

(***************************************************************************)
(* The served system: one request, with the import running beside it.      *)
(***************************************************************************)
Init ==
    /\ GasStation \in CatalogsOf(MaxTableRows)
    /\ ingested = 0
    /\ caller = "plan"
    /\ pc = "request"
    /\ request \in Requests
    /\ planner = None
    /\ route_params = None
    /\ routing = ""
    /\ duration_s = 0
    /\ plan_result = None
    /\ response = None
    /\ route_coords = <<>>
    /\ total_route_distance_miles = 0
    /\ max_range_miles = MAX_RANGE
    /\ cumulative_distances = <<0>>
    /\ i = 0
    /\ last_stop_distance_from_start = 0
    /\ optimal_stops = <<>>
    /\ scans = <<>>
    /\ returned = None
    /\ call = NoCall

Next ==
    \/ ViewBadRequest
    \/ ViewRoutingFails
    \/ ViewPlanRaises
    \/ ViewPlanStart
    \/ FindStopsIter
    \/ PlanFinish
    \/ SaveGasStationRecord

Spec == Init /\ [][Next]_vars

(***************************************************************************)
(* find_stops called directly, as the unit tests do, on a catalog nobody   *)
(* writes during the pass.                                                 *)
(***************************************************************************)
InitFindStopsOn(catalogs) ==
    /\ GasStation \in catalogs
    /\ ingested = 0
    /\ caller = "test"
    /\ pc = "find_stops"
    /\ request = [start |-> None, end |-> None]
    /\ planner = None
    /\ route_params = None
    /\ routing = ""
    /\ duration_s = 0
    /\ plan_result = None
    /\ response = None
    /\ route_coords \in Routes
    /\ total_route_distance_miles \in TotalsOf(route_coords)
    /\ max_range_miles \in MaxRangeChoices
    /\ cumulative_distances =
           calculate_cumulative_distances(route_coords, total_route_distance_miles)
    /\ i = 0
    /\ last_stop_distance_from_start = 0
    /\ optimal_stops = <<>>
    /\ scans = <<>>
    /\ returned = None
    /\ call = NoCall

InitFindStops == InitFindStopsOn(Catalogs)

NextFindStops ==
    \/ FindStopsIter
    \/ FindStopsReturn

SpecFindStops == InitFindStops /\ [][NextFindStops]_vars


(***************************************************************************)
(* The helper functions called directly, as the unit tests do: each action *)
(* draws the arguments of one call and records the call with its result.   *)
(***************************************************************************)
\* a record geocoded in part only: one of the two coordinates is NULL
PartialGeocodeChoices ==
    {<<Some(p), None>> : p \in 0..MaxPos} \cup {<<None, Some(Meridian)>>}

CallStationRows(k) ==
    {[id |-> k, opis_truckstop_id |-> k, retail_price |-> PriceOfRow(k),
      latitude |-> c[1], longitude |-> c[2]] :
        c \in GeocodeChoices \cup PartialGeocodeChoices}

CallCatalogs ==
    UNION {{t \in [1..n -> UNION {CallStationRows(k) : k \in 1..n}] :
               \A k \in 1..n : t[k].id = k} : n \in 0..MaxCallStations}

CallRoutes == RoutesUpTo(MaxCallRouteLen)

\* candidate dictionaries as the tests of select_cheapest_stop build them
CallCandidateLists ==
    UNION {{[k \in 1..n |-> [location |-> <<k, k>>, fuel_price_per_gallon |-> prices[k]]] :
               prices \in [1..n -> {PRICE_A, PRICE_B}]} : n \in 0..MaxCandidates}

(***************************************************************************)
(* GasStationEnricherService.geocode_address.  `answer` is what the        *)
(* geocoding service does with the one request the call makes: it times    *)
(* out, fails (HTTP error status, connection error), or returns a JSON     *)
(* body, a list of results or something else.  The outcome of the call is  *)
(* the exception it raises (None when it returns) and the value returned.  *)
(***************************************************************************)
\* one result of the service: 'lat' and 'lon', either of which may be missing
GeocodeResults ==
    {[lat |-> Some(p), lon |-> Some(Meridian)] : p \in 0..MaxPos}
        \cup {[lat |-> None, lon |-> Some(Meridian)], [lat |-> Some(0), lon |-> None]}

GeocodeAnswers ==
    {[kind |-> k] : k \in {"timeout", "http_error", "connection_error", "not_a_list"}}
        \cup UNION {{[kind |-> "list", data |-> d] : d \in [1..n -> GeocodeResults]} :
                       n \in 0..MaxGeocodeResults}

\* a variant whose handlers catch the general request error first
geocode_address_general_first(answer) ==
    IF answer.kind \in {"timeout", "http_error", "connection_error"}
    THEN [requests |-> 1, raised |-> Some("RequestException"), value |-> None]
    ELSE IF answer.kind = "list" /\ Len(answer.data) > 0
    THEN IF answer.data[1].lat = None \/ answer.data[1].lon = None
         THEN [requests |-> 1, raised |-> Some("Exception"), value |-> None]
         ELSE [requests |-> 1, raised |-> None,
               value |-> Some(<<Val(answer.data[1].lat), Val(answer.data[1].lon)>>)]
    ELSE [requests |-> 1, raised |-> None, value |-> None]

geocode_address(answer) ==
    IF answer.kind = "timeout"
    THEN [requests |-> 1, raised |-> Some("Timeout"), value |-> None]
    ELSE IF answer.kind \in {"http_error", "connection_error"}
    THEN [requests |-> 1, raised |-> Some("RequestException"), value |-> None]
    ELSE IF answer.kind = "list" /\ Len(answer.data) > 0
    THEN IF answer.data[1].lat = None \/ answer.data[1].lon = None
         THEN [requests |-> 1, raised |-> Some("Exception"), value |-> None]
         ELSE [requests |-> 1, raised |-> None,
               value |-> Some(<<Val(answer.data[1].lat), Val(answer.data[1].lon)>>)]
    ELSE [requests |-> 1, raised |-> None, value |-> None]

CallGeocodeAddress ==
    /\ pc = "call"
    /\ \E answer \in GeocodeAnswers :
          call' = [op |-> "geocode_address",
                   answer |-> answer,
                   result |-> geocode_address(answer)]
    /\ pc' = "done"
    /\ UNCHANGED <<GasStation, ingested, caller>>
    /\ UNCHANGED viewVars
    /\ UNCHANGED passVars

CallFindRoutePointIndex ==
    /\ pc = "call"
    /\ \E route \in CallRoutes :
       \E total \in TotalsOf(route) :
          LET table == calculate_cumulative_distances(route, total)
          IN  \E target_distance \in 0..(MaxCallRouteLen * MaxPos * LatUnitMiles + 1),
                 start_index \in 0..(Len(table) - 1) :
                 call' = [op |-> "find_route_point_index_by_distance",
                          total_route_distance_miles |-> total,
                          cumulative_distances |-> table,
                          target_distance |-> target_distance,
                          start_index |-> start_index,
                          result |-> find_route_point_index_by_distance(
                                         table, target_distance, start_index)]
    /\ pc' = "done"
    /\ UNCHANGED <<GasStation, ingested, caller>>
    /\ UNCHANGED viewVars
    /\ UNCHANGED passVars

CallSelectCheapestStop ==
    /\ pc = "call"
    /\ \E candidate_stations \in CallCandidateLists :
          call' = [op |-> "select_cheapest_stop",
                   candidate_stations |-> candidate_stations,
                   result |-> select_cheapest_stop(candidate_stations)]
    /\ pc' = "done"
    /\ UNCHANGED <<GasStation, ingested, caller>>
    /\ UNCHANGED viewVars
    /\ UNCHANGED passVars

CallFindCandidateStations ==
    /\ pc = "call"
    /\ \E table \in CallCatalogs :
       \E route \in CallRoutes \ {<<>>} :
       \E segment_start_index \in 0..(Len(route) - 1) :
       \E segment_end_index \in segment_start_index..(Len(route) - 1) :
       \E last_stop \in {LatUnitMiles * k : k \in 0..MaxLastStopSteps} :
          call' = [op |-> "find_candidate_stations_near_segment",
                   table |-> table,
                   route_coords |-> route,
                   segment_start_index |-> segment_start_index,
                   segment_end_index |-> segment_end_index,
                   last_stop_distance_from_start |-> last_stop,
                   result |-> find_candidate_stations_near_segment(table, route,
                                  calculate_cumulative_distances(route, RawCumulative(route, Len(route) - 1)),
                                  segment_start_index, segment_end_index,
                                  proximity_threshold_miles, last_stop)]
    /\ pc' = "done"
    /\ UNCHANGED <<GasStation, ingested, caller>>
    /\ UNCHANGED viewVars
    /\ UNCHANGED passVars

\* the cost of a trip without stops
CallCalculateTotalFuelCost ==
    /\ pc = "call"
    /\ \E route \in CallRoutes :
       \E total \in TotalsOf(route) \cup {MaxCallTotal} :
          call' = [op |-> "_calculate_total_fuel_cost_on_route",
                   route_coords |-> route,
                   total_route_distance_miles |-> total,
                   optimal_stops |-> <<>>,
                   result |-> calculate_total_fuel_cost_on_route(route, total, <<>>)]
    /\ pc' = "done"
    /\ UNCHANGED <<GasStation, ingested, caller>>
    /\ UNCHANGED viewVars
    /\ UNCHANGED passVars

InitCalls ==
    /\ GasStation = <<>>
    /\ ingested = 0
    /\ caller = "test"
    /\ pc = "call"
    /\ request = [start |-> None, end |-> None]
    /\ planner = None
    /\ route_params = None
    /\ routing = ""
    /\ duration_s = 0
    /\ plan_result = None
    /\ response = None
    /\ route_coords = <<>>
    /\ total_route_distance_miles = 0
    /\ max_range_miles = MAX_RANGE
    /\ cumulative_distances = <<0>>
    /\ i = 0
    /\ last_stop_distance_from_start = 0
    /\ optimal_stops = <<>>
    /\ scans = <<>>
    /\ returned = None
    /\ call = NoCall

NextCalls ==
    \/ CallFindRoutePointIndex
    \/ CallSelectCheapestStop
    \/ CallFindCandidateStations
    \/ CallCalculateTotalFuelCost
    \/ CallGeocodeAddress

SpecCalls == InitCalls /\ [][NextCalls]_vars

(***************************************************************************)
(* Properties of the stop selector.                                        *)
(***************************************************************************)
Returned == Val(returned)

\* the along-route waypoints of a stop list: the start, the stops, the route end
Waypoints(stops) ==
    <<0>> \o [k \in 1..Len(stops) |-> stops[k].distance_from_start_miles]
          \o <<total_route_distance_miles>>

WithinRange(stops) ==
    \A k \in 1..(Len(stops) + 1) :
        Waypoints(stops)[k + 1] - Waypoints(stops)[k] <= max_range_miles

StrictlyIncreasing(stops) ==
    \A k \in 1..(Len(stops) - 1) :
        stops[k].distance_from_start_miles < stops[k + 1].distance_from_start_miles

NonDecreasing(stops) ==
    \A k \in 1..(Len(stops) - 1) :
        stops[k].distance_from_start_miles <= stops[k + 1].distance_from_start_miles


\* C1 as the spec states it: the returned stops keep every leg (start to first
\* stop, stop to stop, last stop to route end) within max_range_miles.
C1_WithinRangeLimit == returned # None => WithinRange(Returned)

\* C1, amended: find_stops does not guarantee the range limit; what it does is
\* never pass an over-range point unsearched.  At an index that lies more than
\* max_range_miles past the last recorded stop (or the start), with the route end
\* also more than max_range_miles past that stop, the iteration runs a candidate
\* search, and it records a stop at that index exactly when the search returns a
\* candidate.
C1_OverRangeIsSearched ==
    [][(/\ pc = "find_stops"
        /\ i < Len(route_coords)
        /\ cumulative_distances[i + 1] - last_stop_distance_from_start > max_range_miles
        /\ total_route_distance_miles - last_stop_distance_from_start > max_range_miles)
       => (/\ Len(scans') = Len(scans) + 1
           /\ scans'[Len(scans')].index = i
           /\ IF scans'[Len(scans')].candidate_stations # <<>>
              THEN /\ Len(optimal_stops') = Len(optimal_stops) + 1
                   /\ last_stop_distance_from_start' = cumulative_distances[i + 1]
              ELSE UNCHANGED <<optimal_stops, last_stop_distance_from_start>>)]_vars

\* C1 witness: a pass that searched at an over-range index, found nothing there,
\* and returned a list that breaks the range limit
C1_Witness ==
    /\ returned # None
    /\ ~WithinRange(Returned)
    /\ \E k \in 1..Len(scans) :
          scans[k].current_range < 0 /\ scans[k].candidate_stations = <<>>
    /\ Len(Returned) >= 1

\* C2: the returned list is strictly increasing by distance_from_start_miles.
C2_StrictlyIncreasing == returned # None => StrictlyIncreasing(Returned)

\* C3: stops are appended, and returned, in non-decreasing distance order.
C3_NonDecreasing ==
    /\ NonDecreasing(optimal_stops)
    /\ returned # None => NonDecreasing(Returned)

\* C3 witness: two stops or more returned from a table whose last element was
\* corrected below its predecessor
C3_Witness ==
    /\ returned # None
    /\ Len(Returned) >= 2
    /\ \E k \in 1..(Len(cumulative_distances) - 1) :
          cumulative_distances[k] > cumulative_distances[k + 1]

FirstAt(location) ==
    CHOOSE k \in 1..Len(optimal_stops) :
        /\ optimal_stops[k].location = location
        /\ \A m \in 1..(k - 1) : optimal_stops[m].location # location

\* C4: the returned list has no two stops with one location; of the stops
\* selected at one location the first is the one kept; the kept stops are in
\* their order of selection.
C4_DeduplicatedFirstKept ==
    returned # None =>
        /\ \A a, b \in 1..Len(Returned) :
              a # b => Returned[a].location # Returned[b].location
        /\ \A k \in 1..Len(optimal_stops) :
              \E m \in 1..Len(Returned) :
                  Returned[m].location = optimal_stops[k].location
        /\ \A m \in 1..Len(Returned) :
              /\ \E k \in 1..Len(optimal_stops) :
                    optimal_stops[k].location = Returned[m].location
              /\ Returned[m] = optimal_stops[FirstAt(Returned[m].location)]
        /\ \A a, b \in 1..Len(Returned) :
              a < b => FirstAt(Returned[a].location) < FirstAt(Returned[b].location)

\* C4 witness: a pass that selected one location twice and another in between
C4_Witness ==
    /\ returned # None
    /\ Len(Returned) >= 2
    /\ Len(Returned) < Len(optimal_stops)

\* C5: when the total distance is at most max_range_miles, no search is made
\* and no stop is selected.
C5_ShortRouteNoSearch ==
    total_route_distance_miles <= max_range_miles =>
        /\ scans = <<>>
        /\ optimal_stops = <<>>
        /\ returned # None => Returned = <<>>

\* C5 witness: a finished pass over a real route no longer than the range
C5_Witness ==
    /\ caller = "test"
    /\ returned # None
    /\ Len(route_coords) >= 3
    /\ total_route_distance_miles > 0
    /\ total_route_distance_miles <= max_range_miles

(***************************************************************************)
(* Properties of the served system.                                        *)
(***************************************************************************)
\* C6: every candidate scan of one pass reads the same catalog contents.
C6_OneSnapshotPerPass ==
    \A a, b \in 1..Len(scans) : scans[a].table = scans[b].table

PlanFailed ==
    /\ pc = "done"
    /\ planner # None
    /\ plan_result = None \/ "error" \in DOMAIN Val(plan_result)

\* C7: a failed plan (an error result, or an exception) is answered with a 5xx
\* status, never 200.
C7_FailedPlanIs5xx ==
    PlanFailed => Val(response).status >= 500

\* C8: when the routing service fails (HTTP error, network exception, empty
\* feature list, missing geometry, missing summary) plan() returns the error
\* result, does not raise, and runs neither find_stops nor the cost integration
\* nor any catalog query.
C8_RoutingFailureIsErrorResult ==
    routing \in RoutingFailures =>
        /\ pc = "done"
        /\ plan_result # None
        /\ DOMAIN Val(plan_result) = {"error"}
        /\ Val(response).data = Val(plan_result)
        /\ returned = None
        /\ scans = <<>>
        /\ optimal_stops = <<>>

\* C8 witness: the routing answer lacked its summary and plan() has returned
C8_Witness ==
    /\ routing = "missing_summary"
    /\ plan_result # None
    /\ response # None

RequestIsMalformed == request.start \in BadValues \/ request.end \in BadValues

\* C9: a request with a missing or malformed start or end is answered 400 with
\* the serializer's errors, and no planner is built, no routing call is made
\* and no catalog scan is run for it.
C9_BadRequestIs400 ==
    (caller = "plan" /\ RequestIsMalformed) =>
        /\ planner = None
        /\ route_params = None
        /\ routing = ""
        /\ scans = <<>>
        /\ plan_result = None
        /\ pc \in {"request", "done"}
        /\ pc = "done" =>
              /\ Val(response).status = 400
              /\ DOMAIN Val(response).data =
                    {f \in {"start", "end"} : request[f] \in BadValues}

\* C9 witness: an out-of-range latitude has been answered
C9_Witness ==
    /\ pc = "done"
    /\ request.start = Some(<<Num(-74), Num(95)>>)
    /\ request.end \notin BadValues
    /\ response # None

\* C10: the coordinates travel in (longitude, latitude) order: the planner holds
\* [lon, lat] of the request and the routing service is sent 'lon,lat'.
C10_LonLatOrder ==
    route_params # None =>
        /\ Val(planner).start_coords = <<Val(Val(request.start)[1]), Val(Val(request.start)[2])>>
        /\ Val(planner).end_coords = <<Val(Val(request.end)[1]), Val(Val(request.end)[2])>>
        /\ Val(route_params).start = Val(request.start)
        /\ Val(route_params).end = Val(request.end)


(***************************************************************************)
(* Properties of the cumulative-distance table.                            *)
(***************************************************************************)
\* the raw sum of the consecutive-point distances of the whole route
RawSum(route) == RawCumulative(route, IF Len(route) = 0 THEN 0 ELSE Len(route) - 1)

\* C11: the table calculate_cumulative_distances returns is non-decreasing,
\* the corrected last element included.
C11_TableNonDecreasing ==
    \A j \in 1..(Len(cumulative_distances) - 1) :
        cumulative_distances[j] <= cumulative_distances[j + 1]

\* C12: the first element of the table is always 0, and a route of zero or one
\* point yields exactly the table [0] whatever total is supplied.
C12_FirstIsZero ==
    /\ cumulative_distances[1] = 0
    /\ Len(route_coords) <= 1 => cumulative_distances = <<0>>

\* C13: the last element is the supplied total exactly when the raw sum differs
\* from the total by more than 1 mile, it is the raw sum otherwise, and every
\* other element is the raw running sum.
C13_LastElementCorrection ==
    caller = "test" =>
        LET n == Len(cumulative_distances)
        IN  /\ n = (IF Len(route_coords) = 0 THEN 1 ELSE Len(route_coords))
            /\ \A k \in 1..(n - 1) :
                  cumulative_distances[k] = RawCumulative(route_coords, k - 1)
            /\ IF Abs(RawSum(route_coords) - total_route_distance_miles) > 1
               THEN cumulative_distances[n] = total_route_distance_miles
               ELSE cumulative_distances[n] = RawSum(route_coords)

\* C13 witness: a finished pass over a route of three points or more whose raw
\* sum is exactly 1 mile from the declared total, so the table is not corrected
C13_Witness ==
    /\ caller = "test"
    /\ pc = "done"
    /\ Len(route_coords) >= 3
    /\ Abs(RawSum(route_coords) - total_route_distance_miles) = 1
    /\ cumulative_distances[Len(cumulative_distances)] = RawSum(route_coords)

(***************************************************************************)
(* Properties of the helper functions called directly.                     *)
(***************************************************************************)
IsIndexCall == call.op = "find_route_point_index_by_distance"

\* the Python indices from start_index on whose distance is at least the target
IndexHits ==
    {j \in call.start_index..(Len(call.cumulative_distances) - 1) :
        call.cumulative_distances[j + 1] >= call.target_distance}

\* the result is the smallest index at or after the target, else the last index
SmallestIndexAtOrAfter ==
    IF IndexHits # {}
    THEN call.result \in IndexHits /\ \A h \in IndexHits : call.result <= h
    ELSE call.result = Len(call.cumulative_distances) - 1

CallTableNonDecreasing ==
    \A j \in 1..(Len(call.cumulative_distances) - 1) :
        call.cumulative_distances[j] <= call.cumulative_distances[j + 1]

\* C14 as the spec states it: the smallest index j >= start_index with
\* table[j] >= target, else the last index; hence 0 for target 0, the last index
\* for any target above the total, and the matching index for an exact match.
C14_IndexAsStated ==
    IsIndexCall =>
        /\ SmallestIndexAtOrAfter
        /\ (call.start_index = 0 /\ call.target_distance = 0) => call.result = 0
        /\ call.target_distance > call.total_route_distance_miles
              => call.result = Len(call.cumulative_distances) - 1
        /\ (\E j \in call.start_index..(Len(call.cumulative_distances) - 1) :
                call.cumulative_distances[j + 1] = call.target_distance)
              => call.cumulative_distances[call.result + 1] = call.target_distance

\* C14 (amended): the smallest index j >= start_index with table[j] >= target,
\* else the last index; hence, searching from index 0, it returns 0 for target 0,
\* the last index for any target above every distance in the table, and, in a
\* non-decreasing table, the first matching index for an exact match.
C14_IndexAtOrAfterDistance ==
    IsIndexCall =>
        /\ SmallestIndexAtOrAfter
        /\ (call.start_index = 0 /\ call.target_distance = 0) => call.result = 0
        /\ (\A j \in 1..Len(call.cumulative_distances) :
                call.cumulative_distances[j] < call.target_distance)
              => call.result = Len(call.cumulative_distances) - 1
        /\ (/\ CallTableNonDecreasing
            /\ \E j \in call.start_index..(Len(call.cumulative_distances) - 1) :
                  call.cumulative_distances[j + 1] = call.target_distance)
              => /\ call.cumulative_distances[call.result + 1] = call.target_distance
                 /\ \A j \in call.start_index..(call.result - 1) :
                       call.cumulative_distances[j + 1] # call.target_distance

\* C14 witness: an exact match found past the start index in a table of three
\* distances that rise
C14_Witness ==
    /\ IsIndexCall
    /\ Len(call.cumulative_distances) = 3
    /\ CallTableNonDecreasing
    /\ call.cumulative_distances[2] < call.cumulative_distances[3]
    /\ call.start_index = 1
    /\ call.target_distance = call.cumulative_distances[3]
    /\ call.result = 2

IsCheapestCall == call.op = "select_cheapest_stop"

\* C15: select_cheapest_stop returns None for an empty list, and otherwise a
\* candidate of minimum price: the first one in list order among those that
\* share the minimum.
C15_CheapestFirstInScanOrder ==
    IsCheapestCall =>
        IF call.candidate_stations = <<>>
        THEN call.result = None
        ELSE /\ call.result # None
             /\ \E k \in 1..Len(call.candidate_stations) :
                   /\ call.candidate_stations[k] = Val(call.result)
                   /\ \A m \in 1..Len(call.candidate_stations) :
                         call.candidate_stations[k].fuel_price_per_gallon
                            <= call.candidate_stations[m].fuel_price_per_gallon
                   /\ \A m \in 1..(k - 1) :
                         call.candidate_stations[m].fuel_price_per_gallon
                            > call.candidate_stations[k].fuel_price_per_gallon

\* C15 witness: three candidates, the first dearer, the other two tied at the
\* minimum, and the second one returned
C15_Witness ==
    /\ IsCheapestCall
    /\ Len(call.candidate_stations) = 3
    /\ call.candidate_stations[1].fuel_price_per_gallon = PRICE_B
    /\ call.candidate_stations[2].fuel_price_per_gallon = PRICE_A
    /\ call.candidate_stations[3].fuel_price_per_gallon = PRICE_A
    /\ call.result = Some(call.candidate_stations[2])

(***************************************************************************)
(* Properties of the pass when the candidate finder finds nothing.         *)
(***************************************************************************)
\* the scans of the pass so far that found a candidate
ScansWithCandidates == {k \in 1..Len(scans) : scans[k].candidate_stations # <<>>}

\* whether the search fires at Python index j while no stop has been selected
TriggeredWithoutStop(j) ==
    LET current_range == max_range_miles - cumulative_distances[j + 1]
        next_stop_target_index ==
            find_route_point_index_by_distance(cumulative_distances, max_range_miles, j)
    IN  search_triggered(total_route_distance_miles - cumulative_distances[j + 1],
                         cumulative_distances[next_stop_target_index + 1]
                             - cumulative_distances[j + 1],
                         current_range)

\* C16: a triggered search that finds no candidate records no stop and leaves
\* last_stop_distance_from_start alone, and the pass goes on to the next index;
\* when no search finds a candidate the result is empty and the finder has been
\* invoked exactly once per triggered index.
C16_NoCandidateNoStop ==
    /\ Len(optimal_stops) = Cardinality(ScansWithCandidates)
    /\ \A k \in 1..Len(scans) :
          /\ scans[k].index < i
          /\ k < Len(scans) => scans[k].index < scans[k + 1].index
          /\ k \notin ScansWithCandidates =>
                (IF k < Len(scans)
                 THEN scans[k + 1].last_stop_distance_from_start
                 ELSE last_stop_distance_from_start)
                    = scans[k].last_stop_distance_from_start
    /\ ScansWithCandidates = {} =>
          /\ optimal_stops = <<>>
          /\ last_stop_distance_from_start = 0
          /\ returned # None => Returned = <<>>
          /\ {scans[k].index : k \in 1..Len(scans)}
                = {j \in 0..(i - 1) : TriggeredWithoutStop(j)}

\* C16 witness: a finished pass that searched at two indices or more, found no
\* candidate at any of them and returned the empty list
C16_Witness ==
    /\ caller = "test"
    /\ pc = "done"
    /\ Len(scans) >= 2
    /\ ScansWithCandidates = {}
    /\ Returned = <<>>
    /\ \E k \in 1..Len(GasStation) : HasCoordinates(GasStation[k])

(***************************************************************************)
(* Properties of the candidate finder called directly.                     *)
(***************************************************************************)
IsCandidatesCall == call.op = "find_candidate_stations_near_segment"

\* (longitude, latitude) of a geocoded row
CoordsOf(station) == <<Val(station.longitude), Val(station.latitude)>>

\* straight-line distance of a geocoded row from the first route point
StraightFromStart(station) == haversine(call.route_coords[1], CoordsOf(station))

\* distance of a geocoded row to the route point of Python index j
DistanceToPoint(station, j) == haversine(CoordsOf(station), call.route_coords[j + 1])

\* the rows of the table the call returned as candidates, in the order returned
ReturnedRows == [k \in 1..Len(call.result) |-> call.result[k].station_obj]

\* C17: no returned candidate lacks a latitude or a longitude, and none lies at
\* a straight-line distance from the first route point that is less than or
\* equal to last_stop_distance_from_start.
C17_CandidatesGeocodedAndAhead ==
    IsCandidatesCall =>
        \A k \in 1..Len(call.result) :
            LET station == call.table[ReturnedRows[k]]
            IN  /\ station.latitude # None
                /\ station.longitude # None
                /\ call.result[k].location
                      = <<Val(station.latitude), Val(station.longitude)>>
                /\ StraightFromStart(station) > call.last_stop_distance_from_start

\* C17 witness: a table whose first row is geocoded in part only and whose
\* second row is returned, with a last stop away from the route start
C17_Witness ==
    /\ IsCandidatesCall
    /\ Len(call.table) = 2
    /\ call.table[1].latitude # None
    /\ call.table[1].longitude = None
    /\ call.last_stop_distance_from_start > 0
    /\ Len(call.result) = 1
    /\ ReturnedRows[1] = 2

\* C18: a geocoded row ahead of the last stop is returned if and only if it is
\* strictly nearer than the threshold to some route point whose index is within
\* [segment_start_index, segment_end_index]; the candidates keep the scan order.
C18_NearSegmentIff ==
    IsCandidatesCall =>
        /\ \A k \in 1..Len(call.table) :
              (/\ HasCoordinates(call.table[k])
               /\ StraightFromStart(call.table[k]) > call.last_stop_distance_from_start)
              => ((\E n \in 1..Len(call.result) : ReturnedRows[n] = k)
                  <=> (\E j \in call.segment_start_index..call.segment_end_index :
                          DistanceToPoint(call.table[k], j) < proximity_threshold_miles))
        /\ \A n \in 1..(Len(call.result) - 1) : ReturnedRows[n] < ReturnedRows[n + 1]

\* C18 witness: of two geocoded rows ahead of the last stop the first is
\* returned and the second, exactly at the threshold from the only point of the
\* segment and nearer to a route point outside it, is not
C18_Witness ==
    /\ IsCandidatesCall
    /\ Len(call.table) = 2
    /\ Len(call.route_coords) = 3
    /\ call.segment_start_index = call.segment_end_index
    /\ HasCoordinates(call.table[2])
    /\ StraightFromStart(call.table[2]) > call.last_stop_distance_from_start
    /\ DistanceToPoint(call.table[2], call.segment_start_index) = proximity_threshold_miles
    /\ \E j \in 0..2 : DistanceToPoint(call.table[2], j) < proximity_threshold_miles
    /\ Len(call.result) = 1
    /\ ReturnedRows[1] = 1

(***************************************************************************)
(* Properties of the cost of the trip.                                     *)
(***************************************************************************)
PlanSucceeded ==
    /\ pc = "done"
    /\ plan_result # None
    /\ "fuel_stops" \in DOMAIN Val(plan_result)

\* the cumulative distance of the route point a stop is projected on
ProjectedDistance(stop) ==
    calculate_cumulative_distances(route_coords, total_route_distance_miles)
        [closest_route_point_index(stop, route_coords) + 1]

\* C19: segment 0 is priced at the default price, and every later segment k at
\* the price of stop k-1 of the stop list, which is the stop whose projected
\* route distance is the start waypoint of that segment.
C19_SegmentPricedAtItsStart ==
    PlanSucceeded =>
        LET stops == Val(plan_result).fuel_stops
            waypoints == waypoint_distances_along_route(route_coords,
                             total_route_distance_miles, stops)
        IN  /\ segment_price(0, stops) = DEFAULT_PRICE_PER_GALLON
            /\ \A k \in 1..Len(stops) :
                  /\ segment_price(k, stops) = stops[k].fuel_price_per_gallon
                  /\ waypoints[k + 1] = ProjectedDistance(stops[k])

IsCostCall == call.op = "_calculate_total_fuel_cost_on_route"

\* C20: with an empty stop list the cost is (total / 10) * 3.00 USD for every
\* route: one segment at the default price and 10 miles per gallon.  The model
\* keeps the cost in tenths of a cent, where this is total * 300.
C20_NoStopsDefaultPrice ==
    (IsCostCall /\ call.optimal_stops = <<>>) =>
        /\ call.result = call.total_route_distance_miles * DEFAULT_PRICE_PER_GALLON
        /\ round_to_cents(call.result) * FUEL_EFFICIENCY
              = call.total_route_distance_miles * DEFAULT_PRICE_PER_GALLON

\* C20 witness: the scenario distance on a route of two points or more, with a
\* cost that is not zero
C20_Witness ==
    /\ IsCostCall
    /\ call.optimal_stops = <<>>
    /\ Len(call.route_coords) >= 2
    /\ call.total_route_distance_miles = MaxCallTotal
    /\ call.result > 0

\* the waypoint distances before the sort of line 173: start, projected stops, end
UnsortedWaypoints(stops) ==
    <<0>> \o [k \in 1..Len(stops) |-> ProjectedDistance(stops[k])]
          \o <<total_route_distance_miles>>

\* C21: the cost is non-negative: every segment taken between consecutive
\* sorted waypoints has a non-negative length (and the prices are non-negative).
C21_CostNonNegative ==
    PlanSucceeded =>
        LET stops == Val(plan_result).fuel_stops
            waypoints == waypoint_distances_along_route(route_coords,
                             total_route_distance_miles, stops)
        IN  /\ \A k \in 1..(Len(waypoints) - 1) : waypoints[k + 1] - waypoints[k] >= 0
            /\ calculate_total_fuel_cost_on_route(route_coords,
                   total_route_distance_miles, stops) >= 0
            /\ Val(plan_result).total_fuel_cost_usd >= 0

\* C21 witness: a plan with two stops or more whose projected distances were
\* appended out of order
C21_Witness ==
    /\ PlanSucceeded
    /\ Len(Val(plan_result).fuel_stops) >= 2
    /\ \E k \in 1..(Len(Val(plan_result).fuel_stops) + 1) :
          UnsortedWaypoints(Val(plan_result).fuel_stops)[k]
             > UnsortedWaypoints(Val(plan_result).fuel_stops)[k + 1]

(***************************************************************************)
(* Properties of the geocoder.                                             *)
(***************************************************************************)
IsGeocodeCall == call.op = "geocode_address"

C23_WindowEndReachable ==
    \A k \in 1..Len(scans) :
        cumulative_distances[scans[k].look_ahead_index + 1]
            - cumulative_distances[scans[k].index + 1] <= scans[k].current_range

\* the n-th scan of the pass that found a candidate
NthScanWithCandidates(n) ==
    CHOOSE k \in ScansWithCandidates :
        Cardinality({m \in ScansWithCandidates : m <= k}) = n

\* C24: a triggered search that yields a cheapest candidate appends one stop
\* with that candidate's location and price at the distance of the triggering
\* index, and sets last_stop_distance_from_start to that distance; the stops
\* appended are as many as the triggered indices with a non-empty candidate list.
C24_StopAtTriggerDistance ==
    /\ Len(optimal_stops) = Cardinality(ScansWithCandidates)
    /\ \A n \in 1..Len(optimal_stops) :
          LET scan == scans[NthScanWithCandidates(n)]
              cheapest == Val(select_cheapest_stop(scan.candidate_stations))
          IN  /\ optimal_stops[n].location = cheapest.location
              /\ optimal_stops[n].fuel_price_per_gallon = cheapest.fuel_price_per_gallon
              /\ optimal_stops[n].distance_from_start_miles
                    = cumulative_distances[scan.index + 1]
              /\ (IF n < Len(optimal_stops)
                  THEN scans[NthScanWithCandidates(n + 1)].last_stop_distance_from_start
                  ELSE last_stop_distance_from_start)
                    = cumulative_distances[scan.index + 1]

\* C24 witness: a finished pass that recorded a stop whose station lies farther
\* from the route start, in a straight line, than the distance recorded
C24_Witness ==
    /\ caller = "test"
    /\ pc = "done"
    /\ Len(optimal_stops) >= 2
    /\ \E n \in 1..Len(optimal_stops) :
          /\ optimal_stops[n].distance_from_start_miles > 0
          /\ Val(select_cheapest_stop(scans[NthScanWithCandidates(n)].candidate_stations))
                .distance_from_start_straight_line_miles
                > optimal_stops[n].distance_from_start_miles

\* C27: whenever the candidate finder is invoked at index i, the window
\* satisfies 0 <= i <= look_ahead_index <= len(route_coords) - 1, also when
\* current_range is negative.
C27_WindowWithinRoute ==
    \A k \in 1..Len(scans) :
        /\ 0 <= scans[k].index
        /\ scans[k].index <= scans[k].look_ahead_index
        /\ scans[k].look_ahead_index <= Len(route_coords) - 1

\* C27 witness: a search made with a negative current range before the last
\* index of the route
C27_Witness ==
    \E k \in 1..Len(scans) :
        /\ scans[k].current_range < 0
        /\ scans[k].index < Len(route_coords) - 1
        /\ scans[k].look_ahead_index = scans[k].index

\* C28: a search is triggered only if the total distance exceeds the last stop
\* distance plus max_range_miles; once a stop is recorded within max_range of
\* the destination no further search is made and no further stop is appended.
C28_NoSearchNearDestination ==
    /\ \A k \in 1..Len(scans) :
          total_route_distance_miles
              > scans[k].last_stop_distance_from_start + max_range_miles
    /\ (/\ optimal_stops # <<>>
        /\ total_route_distance_miles <= last_stop_distance_from_start + max_range_miles)
          => /\ scans[Len(scans)].candidate_stations # <<>>
             /\ cumulative_distances[scans[Len(scans)].index + 1]
                   = last_stop_distance_from_start

\* C28 witness: a finished pass whose last stop is within range of the
\* destination and was recorded two indices or more before the end of the route
C28_Witness ==
    /\ caller = "test"
    /\ pc = "done"
    /\ optimal_stops # <<>>
    /\ total_route_distance_miles <= last_stop_distance_from_start + max_range_miles
    /\ scans[Len(scans)].index + 2 <= Len(route_coords) - 1

InitFindStopsFair == InitFindStopsOn(CatalogsOf(MaxFairStations))

SpecFindStopsFair ==
    InitFindStopsFair /\ [][NextFindStops]_vars /\ WF_vars(NextFindStops)

\* one step of a running pass: an iteration, which visits index i and moves to
\* i + 1 with at most one stop appended, or the exit once i is the route length
FindStopsStepShape ==
    pc = "find_stops" =>
        \/ /\ i < Len(route_coords)
           /\ i' = i + 1
           /\ pc' = "find_stops"
           /\ Len(optimal_stops') <= Len(optimal_stops) + 1
           /\ Len(scans') <= Len(scans) + 1
        \/ /\ i = Len(route_coords)
           /\ i' = i
           /\ pc' = "done"
           /\ optimal_stops' = optimal_stops

\* C25: find_stops terminates for every finite route: the index i advances by
\* exactly one at every iteration, whether or not a stop was selected; each
\* route index 0..len(route)-1 is visited exactly once, in order, so that the
\* pass ends with i at the route length; at most one stop is appended per index.
C25_FindStopsTerminates ==
    /\ <>(pc = "done")
    /\ [][FindStopsStepShape]_vars
    /\ [](/\ i \in 0..Len(route_coords)
          /\ Len(optimal_stops) <= i
          /\ \A a, b \in 1..Len(scans) : a < b => scans[a].index < scans[b].index
          /\ pc = "done" => i = Len(route_coords))

\* C25 witness: a finished pass over three points or more that selected a stop
\* at some index and none at another
C25_Witness ==
    /\ pc = "done"
    /\ caller = "test"
    /\ Len(route_coords) >= 3
    /\ i = Len(route_coords)
    /\ Len(optimal_stops) >= 1
    /\ Len(optimal_stops) < Len(route_coords)

\* C26: the fallback branch that prices a segment with the last stop's price is
\* never taken: the waypoint list built from start, stops and end has
\* len(stops) + 2 entries, so for every segment index k >= 1 of the loop
\* (range(len(waypoints) - 1)), k - 1 is a valid index of the stop list and the
\* segment is priced at stop k - 1.
C26_FallbackNeverTaken ==
    PlanSucceeded =>
        LET stops == Val(plan_result).fuel_stops
            waypoints == waypoint_distances_along_route(route_coords,
                             total_route_distance_miles, stops)
        IN  /\ Len(waypoints) = Len(stops) + 2
            /\ \A k \in 1..(Len(waypoints) - 2) :
                  /\ k - 1 < Len(stops)
                  /\ segment_price(k, stops) = stops[k].fuel_price_per_gallon

\* C26 witness: a plan with two stops or more, so that the loop prices segments
\* 1 and 2 at a stop
C26_Witness ==
    /\ PlanSucceeded
    /\ Len(Val(plan_result).fuel_stops) >= 2
    /\ Len(waypoint_distances_along_route(route_coords, total_route_distance_miles,
               Val(plan_result).fuel_stops)) >= 4

\* C30: the sorted waypoint list starts at 0 and ends at the total route
\* distance, so that the segment distances sum to exactly the total: every
\* stop's projected cumulative distance lies in [0, total].
C30_WaypointsSpanRoute ==
    PlanSucceeded =>
        LET stops == Val(plan_result).fuel_stops
            waypoints == waypoint_distances_along_route(route_coords,
                             total_route_distance_miles, stops)
        IN  /\ waypoints[1] = 0
            /\ waypoints[Len(waypoints)] = total_route_distance_miles
            /\ \A k \in 1..Len(stops) :
                  /\ ProjectedDistance(stops[k]) >= 0
                  /\ ProjectedDistance(stops[k]) <= total_route_distance_miles

=============================================================================
